---- MODULE Spec2Model ----
(***************************************************************************)
(* Model of ingestions/ingest_csvs.py: a CSV ingest sheet is loaded, its   *)
(* rows are sorted and filtered, and one ingest request per remaining row  *)
(* is built, shown to the operator and, once confirmed, POSTed to the M2M  *)
(* API; the responses are accumulated and saved to a CSV file.             *)
(*                                                                         *)
(* Python strings are modelled as sequences of one-character strings, so   *)
(* that splitting, regular-expression matching, substring tests and the    *)
(* lexicographic order of str are computed rather than assumed.  An        *)
(* unhandled Python exception ends the run: pc = "error", exc names it.    *)
(* DataFrame.append is taken as it was in the pandas releases the script   *)
(* was written for (it returns the frame with the rows added).  The texts  *)
(* of the sheet are made of the printable ASCII characters and of the      *)
(* white space characters.                                                 *)
(***************************************************************************)
EXTENDS Integers, Sequences, FiniteSets, TLC

\* ------------------------------------------------------------------------
\* Bounds of the model
\* ------------------------------------------------------------------------
MaxRows == 2        \* the ingest sheet has at most this many data rows

\* ------------------------------------------------------------------------
\* Python str and float('nan')
\* ------------------------------------------------------------------------
\* A character is a one-character string; a character that no string of
\* this notation can hold stands under the name of its code point.
PrintableAscii ==
    <<" ", "!", "\"", "#", "$", "%", "&", "'", "(", ")", "*", "+", ",", "-",
      ".", "/", "0", "1", "2", "3", "4", "5", "6", "7", "8", "9", ":", ";",
      "<", "=", ">", "?", "@", "A", "B", "C", "D", "E", "F", "G", "H", "I",
      "J", "K", "L", "M", "N", "O", "P", "Q", "R", "S", "T", "U", "V", "W",
      "X", "Y", "Z", "[", "\\", "]", "^", "_", "U+0060", "a", "b", "c", "d",
      "e", "f", "g", "h", "i", "j", "k", "l", "m", "n", "o", "p", "q", "r",
      "s", "t", "u", "v", "w", "x", "y", "z", "{", "|", "}", "~">>

\* the characters str.isspace() holds for, with their code points
SpaceCodes ==
    { <<"\t", 9>>, <<"\n", 10>>, <<"U+000B", 11>>, <<"\f", 12>>, <<"\r", 13>>,
      <<"U+001C", 28>>, <<"U+001D", 29>>, <<"U+001E", 30>>, <<"U+001F", 31>>,
      <<" ", 32>>, <<"U+0085", 133>>, <<"U+00A0", 160>>, <<"U+1680", 5760>>,
      <<"U+2000", 8192>>, <<"U+2001", 8193>>, <<"U+2002", 8194>>,
      <<"U+2003", 8195>>, <<"U+2004", 8196>>, <<"U+2005", 8197>>,
      <<"U+2006", 8198>>, <<"U+2007", 8199>>, <<"U+2008", 8200>>,
      <<"U+2009", 8201>>, <<"U+200A", 8202>>, <<"U+2028", 8232>>,
      <<"U+2029", 8233>>, <<"U+202F", 8239>>, <<"U+205F", 8287>>,
      <<"U+3000", 12288>> }

\* str.isspace()
isspace == {p[1] : p \in SpaceCodes}

\* ord(c) of a white space character or of a printable ASCII character
ord(c) ==
    IF c \in isspace THEN (CHOOSE p \in SpaceCodes : p[1] = c)[2]
    ELSE 31 + (CHOOSE k \in 1..Len(PrintableAscii) : PrintableAscii[k] = c)

\* a < b for two str: lexicographic on code points
RECURSIVE str_lt(_, _)
str_lt(a, b) ==
    IF Len(b) = 0 THEN FALSE
    ELSE IF Len(a) = 0 THEN TRUE
    ELSE IF a[1] # b[1] THEN ord(a[1]) < ord(b[1])
    ELSE str_lt(Tail(a), Tail(b))

\* sub in s (substring containment)
str_contains(s, sub) ==
    \E k \in 0..(Len(s) - Len(sub)) : SubSeq(s, k + 1, k + Len(sub)) = sub

\* s.startswith(p)
startswith(s, p) == Len(p) <= Len(s) /\ SubSeq(s, 1, Len(p)) = p

\* s.find(c, k): the first position at or after k that holds c (0: none)
RECURSIVE find(_, _, _)
find(s, c, k) ==
    IF k > Len(s) THEN 0
    ELSE IF s[k] = c THEN k
    ELSE find(s, c, k + 1)

\* s.split(sep) for a one-character separator
RECURSIVE split(_, _)
split(s, sep) ==
    LET p == find(s, sep, 1)
    IN  IF p = 0 THEN <<s>>
        ELSE <<SubSeq(s, 1, p - 1)>> \o split(SubSeq(s, p + 1, Len(s)), sep)

Digits == {"0", "1", "2", "3", "4", "5", "6", "7", "8", "9"}

\* the first position at or after k whose character is not in the set
\* (Len(s) + 1 if there is none)
RECURSIVE skip(_, _, _)
skip(s, k, set) ==
    IF k <= Len(s) /\ s[k] \in set THEN skip(s, k + 1, set) ELSE k

\* a run of digits without the zeros it starts with
strip_zeros(ds) == SubSeq(ds, skip(ds, 1, {"0"}), Len(ds))

\* the number written by the digits ds is greater than the one written by
\* max (max without leading zeros); the numbers may be beyond 32 bits, so
\* their texts are compared
digits_gt(ds, max) ==
    LET s == strip_zeros(ds)
    IN  Len(s) > Len(max) \/ (Len(s) = Len(max) /\ str_lt(max, s))

\* the missing value pandas stores for an empty CSV field: float('nan').
\* It is no str: it has no split(), is not iterable and re cannot match it.
NaN == <<"nan">>
notnull(v) == v # NaN

\* the values of a column pandas converted to numbers or to booleans: no
\* str either.  A number stands as the text that writes it (the code never
\* compares two of them), a boolean as 'True' or 'False'.
Number(text) == <<"number", text>>
Bool(text) == <<"bool", text>>

\* isinstance(v, str)
is_str(v) == v = <<>> \/ v[1] \notin {"nan", "number", "bool"}

\* ------------------------------------------------------------------------
\* pd.read_csv (line 43): the parser of pandas 1.2 to 1.5, where
\* DataFrame.append (line 220) exists, with the default arguments
\* ------------------------------------------------------------------------
\* the field texts read as missing by default
na_values ==
    { <<>>,
      <<"#", "N", "/", "A">>,
      <<"#", "N", "/", "A", " ", "N", "/", "A">>,
      <<"#", "N", "A">>,
      <<"-", "1", ".", "#", "I", "N", "D">>,
      <<"-", "1", ".", "#", "Q", "N", "A", "N">>,
      <<"-", "N", "a", "N">>,
      <<"-", "n", "a", "n">>,
      <<"1", ".", "#", "I", "N", "D">>,
      <<"1", ".", "#", "Q", "N", "A", "N">>,
      <<"<", "N", "A", ">">>,
      <<"N", "/", "A">>,
      <<"N", "A">>,
      <<"N", "U", "L", "L">>,
      <<"N", "a", "N">>,
      <<"n", "/", "a">>,
      <<"n", "a", "n">>,
      <<"n", "u", "l", "l">> }

\* isspace_ascii: blank, TAB, LF, VT, FF, CR
isspace_ascii == {" ", "\t", "\n", "U+000B", "\f", "\r"}

UpperCase ==
    <<"A", "B", "C", "D", "E", "F", "G", "H", "I", "J", "K", "L", "M", "N",
      "O", "P", "Q", "R", "S", "T", "U", "V", "W", "X", "Y", "Z">>
LowerCase ==
    <<"a", "b", "c", "d", "e", "f", "g", "h", "i", "j", "k", "l", "m", "n",
      "o", "p", "q", "r", "s", "t", "u", "v", "w", "x", "y", "z">>

tolower_ascii(c) ==
    IF \E k \in 1..26 : UpperCase[k] = c
    THEN LowerCase[CHOOSE k \in 1..26 : UpperCase[k] = c]
    ELSE c

\* strcasecmp(a, b) == 0
strcasecmp(a, b) ==
    Len(a) = Len(b) /\ \A k \in 1..Len(a) : tolower_ascii(a[k]) = tolower_ascii(b[k])

INT64_MAX ==
    <<"9", "2", "2", "3", "3", "7", "2", "0", "3", "6", "8", "5", "4", "7",
      "7", "5", "8", "0", "7">>
\* -INT64_MIN
INT64_MIN ==
    <<"9", "2", "2", "3", "3", "7", "2", "0", "3", "6", "8", "5", "4", "7",
      "7", "5", "8", "0", "8">>
UINT64_MAX ==
    <<"1", "8", "4", "4", "6", "7", "4", "4", "0", "7", "3", "7", "0", "9",
      "5", "5", "1", "6", "1", "5">>
\* INT_MAX of the C int that holds the exponent
INT_MAX == <<"2", "1", "4", "7", "4", "8", "3", "6", "4", "7">>

\* str_to_int64: blanks, a sign, digits, blanks.  The error is the first
\* one met: no digit, a digit run beyond int64, a character left over.
str_to_int64(text) ==
    LET a == skip(text, 1, isspace_ascii)
        b == IF a <= Len(text) /\ text[a] \in {"+", "-"} THEN a + 1 ELSE a
        c == skip(text, b, Digits)
    IN  IF c = b THEN "ERROR_NO_DIGITS"
        ELSE IF digits_gt(SubSeq(text, b, c - 1),
                          IF text[a] = "-" THEN INT64_MIN ELSE INT64_MAX)
        THEN "ERROR_OVERFLOW"
        ELSE IF skip(text, c, isspace_ascii) <= Len(text)
        THEN "ERROR_INVALID_CHARS"
        ELSE "OK"

\* str_to_uint64: a '-' after the blanks ends the reading without an error
\* (seen_sint); a number beyond int64 is noted (seen_uint)
str_to_uint64(text) ==
    LET a == skip(text, 1, isspace_ascii)
        b == IF a <= Len(text) /\ text[a] = "+" THEN a + 1 ELSE a
        c == skip(text, b, Digits)
    IN  IF a <= Len(text) /\ text[a] = "-" THEN "seen_sint"
        ELSE IF c = b THEN "ERROR_NO_DIGITS"
        ELSE IF digits_gt(SubSeq(text, b, c - 1), UINT64_MAX)
        THEN "ERROR_OVERFLOW"
        ELSE IF skip(text, c, isspace_ascii) <= Len(text)
        THEN "ERROR_INVALID_CHARS"
        ELSE IF digits_gt(SubSeq(text, b, c - 1), INT64_MAX) THEN "seen_uint"
        ELSE "OK"

\* _try_int64 from field k on: the fields are read in order, the missing
\* ones passed over; the first error ends the reading
RECURSIVE try_int64(_, _)
try_int64(texts, k) ==
    IF k > Len(texts) THEN "OK"
    ELSE IF texts[k] \in na_values THEN try_int64(texts, k + 1)
    ELSE LET error == str_to_int64(texts[k])
         IN  IF error = "OK" THEN try_int64(texts, k + 1) ELSE error

\* _try_uint64 from field k on, with what was seen so far: None when a
\* field is no number, OverflowError beyond uint64 or with a negative
\* number, ValueError when a number beyond int64 stands with a negative or
\* a missing one
RECURSIVE try_uint64(_, _, _)
try_uint64(texts, k, seen) ==
    IF k > Len(texts) THEN
        (IF "seen_uint" \in seen /\ seen # {"seen_uint"} THEN "ValueError"
         ELSE IF "seen_sint" \in seen THEN "OverflowError"
         ELSE "OK")
    ELSE IF texts[k] \in na_values
    THEN try_uint64(texts, k + 1, seen \cup {"seen_null"})
    ELSE LET error == str_to_uint64(texts[k])
         IN  IF error = "ERROR_OVERFLOW" THEN "OverflowError"
             ELSE IF error \in {"ERROR_NO_DIGITS", "ERROR_INVALID_CHARS"}
             THEN "None"
             ELSE try_uint64(texts, k + 1, seen \cup ({error} \ {"OK"}))

\* the integer pass of the type inference: the type of the column, or
\* None when the column is to be tried as float64.  After an overflow the
\* column is left as object; after the ValueError with the missing fields
\* kept as their texts (the NA filter is off in that conversion).
try_integer(texts) ==
    LET int64  == try_int64(texts, 1)
        uint64 == try_uint64(texts, 1, {})
    IN  IF int64 = "OK" THEN "int64"
        ELSE IF int64 # "ERROR_OVERFLOW" THEN "None"
        ELSE IF uint64 = "OK" THEN "uint64"
        ELSE IF uint64 = "ValueError" THEN "object, NA kept"
        ELSE IF uint64 = "OverflowError" THEN "object"
        ELSE "None"

\* the field is one of the spellings of infinity, in any letter case
is_infinity(text) ==
    \E name \in { <<"i", "n", "f">>, <<"+", "i", "n", "f">>, <<"-", "i", "n", "f">>,
                  <<"i", "n", "f", "i", "n", "i", "t", "y">>,
                  <<"+", "i", "n", "f", "i", "n", "i", "t", "y">>,
                  <<"-", "i", "n", "f", "i", "n", "i", "t", "y">> } :
        strcasecmp(text, name)

\* the number a run of ASCII digits writes (leading zeros allowed)
RECURSIVE int_digits(_)
int_digits(s) ==
    IF Len(s) = 0 THEN 0
    ELSE int_digits(SubSeq(s, 1, Len(s) - 1)) * 10 + (ord(s[Len(s)]) - 48)

\* the largest 17 digits that, as a double, are finite when scaled by
\* 10^292: 17976931348623158e292 is beyond DBL_MAX
DBL_MAX_DIGITS ==
    <<"1", "7", "9", "7", "6", "9", "3", "1", "3", "4", "8", "6", "2", "3",
      "1", "5", "7">>

\* precise_xstrtod, for a text of the form blanks, sign, digits with at
\* most one point, exponent, blanks (int_part, frac_part: the digits
\* before and after the point; exp_digits: those of the exponent, at most
\* 17 and at least one if there is an 'e'; exp_neg: its sign).  The first 17
\* digits make the mantissa, the digits of the integer part beyond them
\* raise the exponent.  The exponent is a C int: beyond INT_MAX its value
\* is undefined and so is the outcome.  The result is the set of the
\* possible answers to: is it an error (exponent above 308 or the number
\* infinite)?
xstrtod_range_error(int_part, frac_part, exp_digits, exp_neg) ==
    LET nd_int == IF Len(int_part) < 17 THEN Len(int_part) ELSE 17
        ndec   == IF Len(frac_part) < 17 - nd_int THEN Len(frac_part)
                  ELSE 17 - nd_int
        mant   == SubSeq(int_part, 1, nd_int) \o SubSeq(frac_part, 1, ndec)
        exponent_m == (Len(int_part) - nd_int) - ndec
        n      == int_digits(exp_digits)
        undefined ==
            \/ digits_gt(exp_digits, INT_MAX)
            \/ IF exp_neg
               THEN exponent_m < 0 /\ n > 2147483647 + (exponent_m + 1)
               ELSE exponent_m > 0 /\ n > 2147483647 - exponent_m
        exponent == IF exp_neg THEN exponent_m - n ELSE exponent_m + n
    IN  IF undefined THEN {TRUE, FALSE}
        ELSE IF exponent > 308 THEN {TRUE}
        ELSE IF exponent < 292 THEN {FALSE}
        ELSE {digits_gt(mant \o [j \in 1..(exponent - 292) |-> "0"],
                        DBL_MAX_DIGITS)}

\* the conversion of a field to float64 (_try_double): the possible answers
\* to: does it succeed?  a, b, c, d, e, f are the positions precise_xstrtod
\* reaches: after the blanks, the sign, the integer digits, the fraction,
\* the 'e' and its sign, the exponent's digits.  Without a digit after the
\* 'e' it steps back one character, which is then left over.
to_double(text) ==
    LET n == Len(text)
        a == skip(text, 1, isspace_ascii)
        b == IF a <= n /\ text[a] \in {"+", "-"} THEN a + 1 ELSE a
        c == skip(text, b, Digits)
        d == IF c <= n /\ text[c] = "." THEN skip(text, c + 1, Digits) ELSE c
        sci == d <= n /\ text[d] \in {"e", "E"}
        e == IF ~sci THEN d
             ELSE IF d + 1 <= n /\ text[d + 1] \in {"+", "-"} THEN d + 2
             ELSE d + 1
        f == IF skip(text, e, Digits) > e + 17 THEN e + 17
             ELSE skip(text, e, Digits)
        p == IF sci /\ f = e THEN e - 1 ELSE f
    IN  IF (c - b) + (IF d > c THEN d - c - 1 ELSE 0) = 0
        THEN {is_infinity(text)}
        ELSE IF skip(text, p, isspace_ascii) <= n
        THEN {is_infinity(text)}
        ELSE {~err : err \in
                 xstrtod_range_error(SubSeq(text, b, c - 1),
                                     SubSeq(text, c + 1, d - 1),
                                     SubSeq(text, e, f - 1),
                                     sci /\ text[d + 1] = "-")}

\* to_boolean: 'true' or 'false' in any letter case
to_boolean(text) ==
    \/ strcasecmp(text, <<"t", "r", "u", "e">>)
    \/ strcasecmp(text, <<"f", "a", "l", "s", "e">>)

\* the types the inference can give a column, tried in the order int64,
\* float64, bool, object
column_kinds(texts) ==
    LET present == {k \in 1..Len(texts) : texts[k] \notin na_values}
        integer == try_integer(texts)
        doubles == {to_double(texts[k]) : k \in present}
    IN  IF integer # "None" THEN {integer}
        ELSE (IF \A double \in doubles : TRUE \in double
              THEN {"float64"} ELSE {})
             \cup
             (IF \E double \in doubles : FALSE \in double
              THEN {IF \A k \in present : to_boolean(texts[k])
                    THEN "bool" ELSE "object"}
              ELSE {})

\* ------------------------------------------------------------------------
\* Module constants (lines 22-31)
\* ------------------------------------------------------------------------
PRIORITY == 1
USERNAME == <<"u", "s", "e", "r">>

\* ------------------------------------------------------------------------
\* get_deployment_number (lines 56-70)
\* ------------------------------------------------------------------------
\* the longest run of digits a text ends with
trailing_digits(text) ==
    LET AllDigitsFrom(k) == \A j \in (k + 1)..Len(text) : text[j] \in Digits
        p == CHOOSE k \in 0..Len(text) :
                 AllDigitsFrom(k) /\ \A m \in 0..(k - 1) : ~AllDigitsFrom(m)
    IN  SubSeq(text, p + 1, Len(text))

\* re.sub('.*?([0-9]*)$', r'\1', seg).  '$' matches at the end and before a
\* newline that ends seg, and '.' matches no newline: a match can start
\* only after the last newline before that end.  What stands before is
\* copied; the first match reaches from there to the end and is replaced
\* by the digits it ends with (the lazy prefix is the shortest one after
\* which only digits remain); the empty matches that follow add nothing,
\* and a newline that ends seg is copied.
re_sub_trailing_digits(seg) ==
    LET n == Len(seg)
        final_nl == n > 0 /\ seg[n] = "\n"
        e == IF final_nl THEN n - 1 ELSE n
        nls == {k \in 1..e : seg[k] = "\n"}
        l == IF nls = {} THEN 0 ELSE CHOOSE k \in nls : \A j \in nls : j <= k
    IN  SubSeq(seg, 1, l) \o trailing_digits(SubSeq(seg, l + 1, e))
            \o (IF final_nl THEN <<"\n">> ELSE <<>>)

\* the white space int() lets stand around the number: Py_ISSPACE for the
\* ASCII characters (the separators U+001C to U+001F are not among them)
\* and the white space beyond ASCII, which int() turns into blanks first
int_space == isspace \ {"U+001C", "U+001D", "U+001E", "U+001F"}

\* s without the white space of int() at its ends
RECURSIVE int_strip(_)
int_strip(s) ==
    IF Len(s) = 0 THEN s
    ELSE IF s[1] \in int_space THEN int_strip(Tail(s))
    ELSE IF s[Len(s)] \in int_space THEN int_strip(SubSeq(s, 1, Len(s) - 1))
    ELSE s

\* int(s) of a str: white space around is dropped, a sign may lead, the
\* digits may be grouped by single underscores; anything else raises
int(s) ==
    LET t == int_strip(s)
        signed == t # <<>> /\ t[1] \in {"+", "-"}
        body == IF signed THEN Tail(t) ELSE t
        valid == /\ body # <<>>
                 /\ \A k \in 1..Len(body) : body[k] \in Digits \cup {"_"}
                 /\ body[1] \in Digits
                 /\ body[Len(body)] \in Digits
                 /\ \A k \in 1..(Len(body) - 1) :
                        ~(body[k] = "_" /\ body[k + 1] = "_")
    IN  IF ~valid THEN [exc |-> "ValueError", value |-> 0]
        ELSE [exc |-> "",
              value |-> (IF signed /\ t[1] = "-" THEN -1 ELSE 1) *
                        int_digits(SelectSeq(body, LAMBDA c : c # "_"))]

\* one pass of the loop body, line 67-68: the exception raised ("" if none)
\* and the integer appended
deployment_of(fm) ==
    IF ~is_str(fm) THEN [exc |-> "AttributeError", value |-> 0]
    ELSE LET split_fm == split(fm, "/") IN
         IF Len(split_fm) < 6 THEN [exc |-> "IndexError", value |-> 0]
         ELSE int(re_sub_trailing_digits(split_fm[6]))

\* get_deployment_number with the failure swallowed: a mask without a
\* deployment number gives 0 instead of raising
get_deployment_number_silent_zero(filename_mask) ==
    [exc |-> "",
     value |-> [k \in 1..Len(filename_mask) |->
                   deployment_of(filename_mask[k]).value]]

\* the for loop of lines 65-70 from its k-th pass on: the first mask that
\* fails raises, else the list is returned
RECURSIVE deployment_loop(_, _, _)
deployment_loop(filename_mask, k, deployment_number) ==
    IF k > Len(filename_mask)
    THEN [exc |-> "", value |-> deployment_number]
    ELSE LET d == deployment_of(filename_mask[k])
         IN  IF d.exc # "" THEN [exc |-> d.exc, value |-> <<>>]
             ELSE deployment_loop(filename_mask, k + 1,
                                  Append(deployment_number, d.value))

\* the whole function
get_deployment_number(filename_mask) == deployment_loop(filename_mask, 1, <<>>)

\* ------------------------------------------------------------------------
\* load_ingest_sheet (lines 34-53)
\* ------------------------------------------------------------------------
\* a field in na_values is read as NaN
read_field(text) == IF text \in na_values THEN NaN ELSE text

\* the digits of the negative int64 that equal INT64_MIN once they are
\* float64 are greater than these: -(2^63 - 512) and below
INT64_MIN_AS_FLOAT ==
    <<"9", "2", "2", "3", "3", "7", "2", "0", "3", "6", "8", "5", "4", "7",
      "7", "5", "2", "9", "5">>

\* the int64 of the field is taken for a missing value when the column is
\* made float64 because a field is missing: INT64_MIN marks the missing
\* ones, and the comparison is made on the float64
int64_na(text) ==
    LET a == skip(text, 1, isspace_ascii)
    IN  /\ text[a] = "-"
        /\ digits_gt(SubSeq(text, a + 1, skip(text, a + 1, Digits) - 1),
                     INT64_MIN_AS_FLOAT)

\* the value read_csv returns for a field of a column of this type;
\* upcast: a field of the column is missing
read_value(kind, upcast, text) ==
    IF kind = "object, NA kept" THEN text
    ELSE IF read_field(text) = NaN THEN NaN
    ELSE IF kind = "int64" /\ upcast /\ int64_na(text) THEN NaN
    ELSE IF kind \in {"int64", "uint64", "float64"} THEN Number(text)
    ELSE IF kind = "bool"
    THEN Bool(IF strcasecmp(text, <<"t", "r", "u", "e">>)
              THEN <<"T", "r", "u", "e">> ELSE <<"F", "a", "l", "s", "e">>)
    ELSE text

\* pd.read_csv(ingest_csv, usecols=[0, 1, 2, 3]): the frames it can return,
\* each one (label, Series) pair per data row, labels 0, 1, 2, ...
read_csv(lines) ==
    LET rows == 1..Len(lines)
        filename_mask == [k \in rows |-> lines[k].filename_mask]
        reference_designator == [k \in rows |-> lines[k].reference_designator]
        data_source == [k \in rows |-> lines[k].data_source]
        parser == [k \in rows |-> lines[k].parser]
        upcast(texts) == \E k \in rows : texts[k] \in na_values
    IN  { [k \in rows |->
             <<k - 1,
               [filename_mask        |->
                    read_value(kind.filename_mask, upcast(filename_mask),
                               filename_mask[k]),
                reference_designator |->
                    read_value(kind.reference_designator,
                               upcast(reference_designator),
                               reference_designator[k]),
                data_source          |->
                    read_value(kind.data_source, upcast(data_source),
                               data_source[k]),
                parser               |->
                    read_value(kind.parser, upcast(parser), parser[k])]>>] :
          kind \in [filename_mask        : column_kinds(filename_mask),
                    reference_designator : column_kinds(reference_designator),
                    data_source          : column_kinds(data_source),
                    parser               : column_kinds(parser)] }

\* line 48-51
ingest_type_of(itype) ==
    IF str_contains(itype, <<"t", "e", "l", "e", "m", "e", "t", "e", "r", "e", "d">>)
    THEN "TELEMETERED" ELSE "RECOVERED"

\* the outcomes of load_ingest_sheet, one for each frame read_csv can return
load_ingest_sheet(lines, itype) ==
    { LET dep == get_deployment_number(
                     [k \in 1..Len(frame) |-> frame[k][2].filename_mask])
      IN  IF dep.exc # "" THEN [exc |-> dep.exc, df |-> <<>>]
          ELSE [exc |-> "",
                df  |-> [k \in 1..Len(frame) |->
                           <<frame[k][1],
                             frame[k][2] @@
                             [username   |-> USERNAME,
                              deployment |-> dep.value[k],
                              state      |-> "RUN",
                              priority   |-> PRIORITY,
                              type       |-> ingest_type_of(itype)]>>]] :
      frame \in read_csv(lines) }

\* ------------------------------------------------------------------------
\* main, lines 155-189: sort, rename, drop null masks, drop cabled systems
\* ------------------------------------------------------------------------
\* x sorts no later than y in a column of str with NaN placed last
ref_le(x, y) ==
    IF ~notnull(y) THEN TRUE
    ELSE IF ~notnull(x) THEN FALSE
    ELSE ~str_lt(y, x)

\* row a sorts no later than row b on ['deployment', 'reference_designator']
key_le(a, b) ==
    \/ a[2].deployment < b[2].deployment
    \/ /\ a[2].deployment = b[2].deployment
       /\ ref_le(a[2].reference_designator, b[2].reference_designator)

\* df.sort_values([...]): ascending and stable (rows with equal keys keep
\* the order of the sheet)
RECURSIVE sort_values(_)
sort_values(frame) ==
    IF Len(frame) <= 1 THEN frame
    ELSE LET rest == sort_values(SubSeq(frame, 1, Len(frame) - 1))
             last == frame[Len(frame)]
             n    == Cardinality({k \in 1..Len(rest) : key_le(rest[k], last)})
         IN  SubSeq(rest, 1, n) \o <<last>> \o SubSeq(rest, n + 1, Len(rest))

\* df.rename(columns={...}), line 156-157
rename(frame) ==
    [k \in 1..Len(frame) |->
        <<frame[k][1],
          [fileMask     |-> frame[k][2].filename_mask,
           refDes       |-> frame[k][2].reference_designator,
           dataSource   |-> frame[k][2].data_source,
           parserDriver |-> frame[k][2].parser,
           username     |-> frame[k][2].username,
           deployment   |-> frame[k][2].deployment,
           state        |-> frame[k][2].state,
           priority     |-> frame[k][2].priority,
           type         |-> frame[k][2].type]>>]

\* line 164
cabled ==
    << <<"R", "S">>,
       <<"C", "E", "0", "2", "S", "H", "B", "P">>,
       <<"C", "E", "0", "4", "O", "S", "B", "P">>,
       <<"C", "E", "0", "4", "O", "S", "P", "D">>,
       <<"C", "E", "0", "4", "O", "S", "P", "S">> >>

\* the cabled test as a comparison of whole names instead of a match at
\* the start
re_match_cabled_exact(rd) == \E k \in 1..Len(cabled) : rd = cabled[k]

\* re.match(cabled_reg_ex, rd): one of the alternatives matches at the start
re_match_cabled(rd) == \E k \in 1..Len(cabled) : startswith(rd, cabled[k])

\* lines 155-189 as a whole.  exc: the exception that ends the run, if any
\* (a reference designator that is no str, NaN or a number, cannot be
\* sorted with str at line 161 nor matched by re at line 168; it is looked
\* for in the frame as loaded, whose order nothing shows before the run
\* ends); df: the frame the loop iterates, refDesFinal = ''
filter_stage(loaded) ==
    LET sorted   == sort_values(loaded)
        renamed  == rename(sorted)
        withMask == SelectSeq(renamed, LAMBDA r : notnull(r[2].fileMask))
        unique_ref_des == {withMask[k][2].refDes : k \in 1..Len(withMask)}
        cabled_ref_des == {rd \in unique_ref_des : re_match_cabled(rd)}
        kept     == SelectSeq(withMask, LAMBDA r : r[2].refDes \notin cabled_ref_des)
        loaded_ref_des ==
            {loaded[k][2].reference_designator :
                 k \in {j \in 1..Len(loaded) : notnull(loaded[j][2].filename_mask)}}
    IN  IF \E rd \in loaded_ref_des : ~is_str(rd)
        THEN [exc |-> "TypeError", df |-> <<>>]
        ELSE [exc |-> "",
              df  |-> [k \in 1..Len(kept) |->
                         <<kept[k][1], kept[k][2] @@ [refDesFinal |-> ""]>>]]

\* ------------------------------------------------------------------------
\* main, lines 183-204: refDesFinal
\* ------------------------------------------------------------------------
wcard_refdes ==
    { <<"G", "A", "0", "3", "F", "L", "M", "A", "-", "R", "I", "M", "0", "1",
        "-", "0", "2", "-", "C", "T", "D", "M", "O", "G", "0", "0", "0">>,
      <<"G", "A", "0", "3", "F", "L", "M", "B", "-", "R", "I", "M", "0", "1",
        "-", "0", "2", "-", "C", "T", "D", "M", "O", "G", "0", "0", "0">>,
      <<"G", "I", "0", "3", "F", "L", "M", "A", "-", "R", "I", "M", "0", "1",
        "-", "0", "2", "-", "C", "T", "D", "M", "O", "G", "0", "0", "0">>,
      <<"G", "I", "0", "3", "F", "L", "M", "B", "-", "R", "I", "M", "0", "1",
        "-", "0", "2", "-", "C", "T", "D", "M", "O", "G", "0", "0", "0">>,
      <<"G", "P", "0", "3", "F", "L", "M", "A", "-", "R", "I", "M", "0", "1",
        "-", "0", "2", "-", "C", "T", "D", "M", "O", "G", "0", "0", "0">>,
      <<"G", "P", "0", "3", "F", "L", "M", "B", "-", "R", "I", "M", "0", "1",
        "-", "0", "2", "-", "C", "T", "D", "M", "O", "G", "0", "0", "0">>,
      <<"G", "S", "0", "3", "F", "L", "M", "A", "-", "R", "I", "M", "0", "1",
        "-", "0", "2", "-", "C", "T", "D", "M", "O", "G", "0", "0", "0">>,
      <<"G", "S", "0", "3", "F", "L", "M", "B", "-", "R", "I", "M", "0", "1",
        "-", "0", "2", "-", "C", "T", "D", "M", "O", "G", "0", "0", "0">> }

\* the two branches of line 197-202 exchanged
refDesFinal_inverted(rd) == IF rd \in wcard_refdes THEN "true" ELSE "false"

\* line 197-202
refDesFinal_of(rd) == IF rd \in wcard_refdes THEN "false" ELSE "true"

\* ------------------------------------------------------------------------
\* build_ingest_dict (lines 73-100); a dict is a function on its keys
\* ------------------------------------------------------------------------
build_ingest_dict(ingest_info) ==
    LET keys == DOMAIN ingest_info
        adict == [k \in ({"parserDriver", "fileMask", "dataSource", "deployment",
                          "refDes", "refDesFinal"} \cap keys) |-> ingest_info[k]]
        request_dict == [username |-> ingest_info["username"],
                         state    |-> ingest_info["state"],
                         ingestRequestFileMasks |-> <<adict>>,
                         type     |-> ingest_info["type"],
                         priority |-> ingest_info["priority"]]
        option_dict == [k \in ({"beginFileDate", "endFileDate"} \cap keys) |->
                           ingest_info[k]]
    IN  IF DOMAIN option_dict # {}
        THEN request_dict @@ [options |-> option_dict]
        ELSE request_dict

\* ------------------------------------------------------------------------
\* ingest_data (lines 103-117) and requests.Response.ok
\* ------------------------------------------------------------------------
None == <<>>

\* Response.ok: raise_for_status() raises for 4xx and 5xx only
response_ok(status_code) == ~(400 <= status_code /\ status_code < 600)

\* ingest_data returning the response whatever its status
ingest_data_unchecked(response) == response

\* the value ingest_data returns for the response the server gave
ingest_data(response) ==
    IF response_ok(response.status_code) THEN response ELSE None

\* line 206-207: input(...) or 'y', then 'y' in review
review_of(answer) == IF answer = <<>> THEN <<"y">> ELSE answer

\* the test of line 207 as review == 'y'
confirmed_exact(answer) == review_of(answer) = <<"y">>

confirmed(answer) == str_contains(review_of(answer), <<"y">>)

\* line 193-195, for a parserDriver that is a str
commented_out(parserDriver) == str_contains(parserDriver, <<"#">>)

\* lines 211-219: the one-row frame appended to ingest_df
result_record(ingest_json, series) ==
    [ReferenceDesignator |-> series.refDes,
     state       |-> series.state,
     type        |-> series.type,
     deployment  |-> series.deployment,
     username    |-> series.username,
     priority    |-> series.priority,
     refDesFinal |-> series.refDesFinal,
     fileMask    |-> series.fileMask] @@ ingest_json

\* ------------------------------------------------------------------------
\* Inputs: the ingest sheet, the command line, the operator, the server
\* ------------------------------------------------------------------------
\* filename_mask fields: deployment 12 (leading zeros), deployment 3, a
\* sixth segment without trailing digits, fewer than six segments, empty
FilenameMasks ==
    { <<"/", "o", "/", "w", "/", "O", "/", "C", "E", "0", "2", "/", "D", "0",
        "0", "0", "1", "2", "/", "c">>,
      <<"/", "o", "/", "w", "/", "O", "/", "C", "E", "0", "2", "/", "R", "3",
        "/", "c">>,
      <<"/", "o", "/", "w", "/", "O", "/", "C", "E", "0", "2", "/", "D", "3",
        "x", "/", "c">>,
      <<"/", "o", "/", "w">>,
      <<>> }

\* reference_designator fields: two cabled ones (a prefix match and an exact
\* one), an uncabled one sharing a prefix with a cabled platform, a wildcard
RefDesFields ==
    { <<"R", "S", "0", "1", "S", "B", "P", "S">>,
      <<"C", "E", "0", "2", "S", "H", "B", "P">>,
      <<"C", "E", "0", "2", "S", "H", "S", "M">>,
      <<"G", "A", "0", "3", "F", "L", "M", "A", "-", "R", "I", "M", "0", "1",
        "-", "0", "2", "-", "C", "T", "D", "M", "O", "G", "0", "0", "0">> }

\* parser fields: enabled, commented out, a '#' inside, empty
ParserFields ==
    { <<"m", "f", "l", "m">>, <<"#", "m", "f", "l", "m">>, <<"m", "f", "#", "l", "m">>, <<>> }

DataSourceFields == { <<"t", "e", "l", "e", "m", "e", "t", "e", "r", "e", "d">> }

SheetLines ==
    [filename_mask : FilenameMasks, reference_designator : RefDesFields,
     data_source : DataSourceFields, parser : ParserFields]

Sheets == UNION {[1..n -> SheetLines] : n \in 0..MaxRows}

\* argparse choices, line 139
IngestTypes == { <<"r", "e", "c", "o", "v", "e", "r", "e", "d">>,
                 <<"t", "e", "l", "e", "m", "e", "t", "e", "r", "e", "d">> }

\* what the operator types at the prompt
Answers == { <<>>, <<"y", "e", "s">>, <<"n">>, <<"Y">> }

\* the status codes the server answers with
StatusCodes == {200, 500}

\* ------------------------------------------------------------------------
\* State
\* ------------------------------------------------------------------------
VARIABLES
    csv,          \* the data rows of the ingest sheet (field texts)
    ingest_type,  \* the -t argument
    pc,           \* "start", "loaded", "loop", "input", "post", and the ends
                  \* of a run: "returned" (line 181), "done" (line 230), "error"
    exc,          \* the unhandled exception that ended the run, <<type, where>>
    df,           \* the data frame: a sequence of <<label, Series>>
    i,            \* position of df.iterrows()
    row,          \* the Series of the current iteration (a copy of the row)
    ingest_dict,  \* the request built for the current row
    ingest_df,    \* the accumulated results
    shown,        \* labels of the rows whose request was printed and prompted
    answers,      \* <<label, answer>> for each prompt answered
    posted,       \* <<label, request>> for each requests.post made
    statuses,     \* the status code of each response received
    row_state,    \* per position of df: where the row stands in the loop
    files         \* the frames written by to_csv

vars == <<csv, ingest_type, pc, exc, df, i, row, ingest_dict, ingest_df,
          shown, answers, posted, statuses, row_state, files>>

Init ==
    /\ csv \in Sheets
    /\ ingest_type \in IngestTypes
    /\ pc = "start"
    /\ exc = None
    /\ df = <<>>
    /\ i = 0
    /\ row = None
    /\ ingest_dict = None
    /\ ingest_df = <<>>
    /\ shown = <<>>
    /\ answers = <<>>
    /\ posted = <<>>
    /\ statuses = <<>>
    /\ row_state = <<>>
    /\ files = <<>>

\* line 154: df = load_ingest_sheet(ingest_csv, ingest_type)
LoadIngestSheet ==
    /\ pc = "start"
    /\ \E res \in load_ingest_sheet(csv, ingest_type) :
       IF res.exc # ""
       THEN /\ pc' = "error"
            /\ exc' = <<res.exc, "load_ingest_sheet">>
            /\ df' = df
       ELSE /\ pc' = "loaded"
            /\ exc' = exc
            /\ df' = res.df
    /\ UNCHANGED <<csv, ingest_type, i, row, ingest_dict, ingest_df, shown,
                   answers, posted, statuses, row_state, files>>

\* lines 155-190: the filter stage, the early return and the loop set-up
FilterStage ==
    /\ pc = "loaded"
    /\ LET res == filter_stage(df) IN
       IF res.exc # ""
       THEN /\ pc' = "error"
            /\ exc' = <<res.exc, "filter">>
            /\ UNCHANGED <<df, i, row_state>>
       ELSE /\ df' = res.df
            /\ exc' = exc
            /\ row_state' = [k \in 1..Len(res.df) |-> "PENDING"]
            /\ IF res.df = <<>>
               THEN pc' = "returned" /\ i' = i
               ELSE pc' = "loop" /\ i' = 1
    /\ UNCHANGED <<csv, ingest_type, row, ingest_dict, ingest_df, shown,
                   answers, posted, statuses, files>>

\* lines 191-205: one row of df.iterrows() up to the prompt
NextRow ==
    /\ pc = "loop"
    /\ i <= Len(df)
    /\ LET label  == df[i][1]
           series == df[i][2]
       IN  IF ~is_str(series.parserDriver)
           THEN \* '#' in nan: a float (or a number) is not iterable
                /\ pc' = "error"
                /\ exc' = <<"TypeError", "loop">>
                /\ UNCHANGED <<i, row, ingest_dict, shown, row_state>>
           ELSE IF commented_out(series.parserDriver)
                   \/ series.parserDriver = <<>>
           THEN \* continue (line 194, line 225)
                /\ row_state' = [row_state EXCEPT ![i] = "SKIPPED_DISABLED"]
                /\ i' = i + 1
                /\ UNCHANGED <<pc, exc, row, ingest_dict, shown>>
           ELSE LET copy == [series EXCEPT
                                !.refDesFinal = refDesFinal_of(series.refDes)]
                IN  /\ row' = copy
                    /\ ingest_dict' = build_ingest_dict(copy)
                    /\ shown' = Append(shown, label)
                    /\ pc' = "input"
                    /\ UNCHANGED <<exc, i, row_state>>
    /\ UNCHANGED <<csv, ingest_type, df, ingest_df, answers, posted, statuses,
                   files>>

\* lines 206-208 and 221-223: the operator answers; the request is POSTed
\* or the row is skipped
Review(answer) ==
    /\ pc = "input"
    /\ answers' = Append(answers, <<df[i][1], answer>>)
    /\ IF confirmed(answer)
       THEN /\ posted' = Append(posted, <<df[i][1], ingest_dict>>)
            /\ row_state' = [row_state EXCEPT ![i] = "SUBMITTED"]
            /\ pc' = "post"
            /\ UNCHANGED <<i, row, ingest_dict>>
       ELSE /\ row_state' = [row_state EXCEPT ![i] = "SKIPPED_BY_OPERATOR"]
            /\ i' = i + 1
            /\ row' = None
            /\ ingest_dict' = None
            /\ pc' = "loop"
            /\ UNCHANGED posted
    /\ UNCHANGED <<csv, ingest_type, exc, df, ingest_df, shown, statuses, files>>

\* lines 113-117 and 208-220: the server answers; ingest_data returns the
\* response or None, and main calls r.json() on whatever it got
IngestData(status_code) ==
    /\ pc = "post"
    /\ statuses' = Append(statuses, status_code)
    /\ LET response == [status_code |-> status_code,
                        json |-> [id |-> Len(posted)]]
           r == ingest_data(response)
       IN  IF r = None
           THEN \* None.json(): 'NoneType' object has no attribute 'json'
                /\ pc' = "error"
                /\ exc' = <<"AttributeError", "loop">>
                /\ row_state' = [row_state EXCEPT ![i] = "FAILED"]
                /\ UNCHANGED <<i, row, ingest_dict, ingest_df>>
           ELSE /\ ingest_df' = Append(ingest_df, result_record(r.json, row))
                /\ row_state' = [row_state EXCEPT ![i] = "RECORDED"]
                /\ i' = i + 1
                /\ row' = None
                /\ ingest_dict' = None
                /\ pc' = "loop"
                /\ exc' = exc
    /\ UNCHANGED <<csv, ingest_type, df, shown, answers, posted, files>>

\* lines 227-230: after the last row the results are printed and saved
SaveResults ==
    /\ pc = "loop"
    /\ i > Len(df)
    /\ files' = Append(files, ingest_df)
    /\ pc' = "done"
    /\ UNCHANGED <<csv, ingest_type, exc, df, i, row, ingest_dict, ingest_df,
                   shown, answers, posted, statuses, row_state>>

Next ==
    \/ LoadIngestSheet
    \/ FilterStage
    \/ NextRow
    \/ \E answer \in Answers : Review(answer)
    \/ \E status_code \in StatusCodes : IngestData(status_code)
    \/ SaveResults

Spec == Init /\ [][Next]_vars

\* ------------------------------------------------------------------------
\* Vocabulary of the properties, stated on the texts of the ingest sheet
\* ------------------------------------------------------------------------
Terminated == pc \in {"returned", "done", "error"}

\* the run got past load_ingest_sheet
PastLoading ==
    /\ pc # "start"
    /\ ~(pc = "error" /\ exc[2] = "load_ingest_sheet")

\* the run got past the filter stage
PastFilter ==
    \/ pc \in {"loop", "input", "post", "done", "returned"}
    \/ (pc = "error" /\ exc[2] = "loop")

\* no row met by the loop ended the run before it was skipped, declined
\* or submitted
RowsMetNamedOutcomes ==
    ~(pc = "error" /\ exc[2] = "loop" /\ row_state[i] = "PENDING")

\* the line of the sheet a data frame label stands for
LineOf(label) == csv[label + 1]

\* labels in a sequence of <<label, ...>> pairs
Labels(pairs) == {pairs[k][1] : k \in 1..Len(pairs)}

CabledPrefixes ==
    { <<"R", "S">>, <<"C", "E", "0", "2", "S", "H", "B", "P">>,
      <<"C", "E", "0", "4", "O", "S", "B", "P">>, <<"C", "E", "0", "4", "O", "S", "P", "D">>,
      <<"C", "E", "0", "4", "O", "S", "P", "S">> }

\* the text equals or starts with a cabled platform name
IsCabledText(text) ==
    \E p \in CabledPrefixes :
        Len(p) <= Len(text) /\ \A j \in 1..Len(p) : text[j] = p[j]

\* G{A,I,P,S}03FLM{A,B}-RIM01-02-CTDMOG000
WildcardTexts ==
    { <<"G", x, "0", "3", "F", "L", "M", y>> \o
      <<"-", "R", "I", "M", "0", "1", "-", "0", "2", "-", "C", "T", "D", "M", "O", "G", "0", "0", "0">> :
      x \in {"A", "I", "P", "S"}, y \in {"A", "B"} }

\* position of the n-th '/' of a text at or after position k (0 if there
\* is none)
RECURSIVE SlashFrom(_, _, _)
SlashFrom(text, k, n) ==
    IF k > Len(text) THEN 0
    ELSE IF text[k] # "/" THEN SlashFrom(text, k + 1, n)
    ELSE IF n = 1 THEN k
    ELSE SlashFrom(text, k + 1, n - 1)

SlashAt(text, n) == SlashFrom(text, 1, n)

\* last position of the sixth '/'-delimited segment (0 if there is none)
SixthSegmentEnd(text) ==
    LET fifth == SlashAt(text, 5)
        sixth == IF fifth = 0 THEN 0 ELSE SlashFrom(text, fifth + 1, 1)
    IN  IF fifth = 0 THEN 0
        ELSE IF sixth = 0 THEN Len(text)
        ELSE sixth - 1

\* the sixth segment exists and ends in a digit
HasDeploymentNumber(text) ==
    LET fifth == SlashAt(text, 5)
        end   == SixthSegmentEnd(text)
    IN  fifth # 0 /\ end > fifth /\ text[end] \in Digits

DigitValue(c) ==
    CHOOSE d \in 0..9 :
        <<"0", "1", "2", "3", "4", "5", "6", "7", "8", "9">>[d + 1] = c

\* the number written by the digit run that ends at position e
RECURSIVE DigitRunValue(_, _)
DigitRunValue(text, e) ==
    IF e = 0 \/ text[e] \notin Digits THEN 0
    ELSE 10 * DigitRunValue(text, e - 1) + DigitValue(text[e])

DeploymentOfText(text) == DigitRunValue(text, SixthSegmentEnd(text))

\* a parser field that is enabled: not empty and without '#'
EnabledParserText(text) == text # <<>> /\ \A j \in 1..Len(text) : text[j] # "#"

\* an answer that confirms: empty, or with a 'y' in it
ConfirmingAnswer(answer) ==
    answer = <<>> \/ \E j \in 1..Len(answer) : answer[j] = "y"

TypeOfRun == IF ingest_type = <<"t", "e", "l", "e", "m", "e", "t", "e", "r", "e", "d">>
             THEN "TELEMETERED" ELSE "RECOVERED"

\* the file mask descriptor of a request
FileMaskOf(request) == request.ingestRequestFileMasks[1]

TerminalRowStates ==
    {"SKIPPED_DISABLED", "SKIPPED_BY_OPERATOR", "RECORDED", "FAILED"}

ShownLabels == {shown[k] : k \in 1..Len(shown)}

\* the answer given at the prompt of the row with this label confirms
Confirmed(label) ==
    \E a \in 1..Len(answers) :
        answers[a][1] = label /\ ConfirmingAnswer(answers[a][2])

\* the lines of the sheet a request is due for: not cabled, with a file
\* mask and an enabled parser
EligibleLines ==
    {n \in 1..Len(csv) :
        /\ ~IsCabledText(csv[n].reference_designator)
        /\ csv[n].filename_mask # <<>>
        /\ EnabledParserText(csv[n].parser)}

\* line a sorts no later than line b on (deployment, reference designator)
InSheetOrder(a, b) ==
    LET da == DeploymentOfText(a.filename_mask)
        db == DeploymentOfText(b.filename_mask)
    IN  da < db \/ (da = db /\ ~str_lt(b.reference_designator,
                                       a.reference_designator))

\* ------------------------------------------------------------------------
\* The properties
\* ------------------------------------------------------------------------

\* C1: when the POST of a confirmed row is answered with HTTP 500, the row
\* is recorded as FAILED and the run is not aborted: every later row is
\* still processed, so a run that has ended left no row PENDING.
C1_FailedSubmissionDoesNotAbort ==
    \A k \in 1..Len(statuses) : statuses[k] = 500 =>
        /\ pc # "error"
        /\ \E p \in 1..Len(df) :
               df[p][1] = posted[k][1] /\ row_state[p] = "FAILED"
        /\ Terminated => \A p \in 1..Len(df) : row_state[p] \in TerminalRowStates

\* C2: if any line of the sheet, wherever it stands and whatever its other
\* fields are, has a filename mask without an extractable deployment
\* number, the run aborts in load_ingest_sheet: nothing was shown to the
\* operator, no answer was asked for, no request was POSTed.
C2_BadMaskAbortsInLoad ==
    \/ pc = "start"
    \/ /\ pc = "error"
       /\ exc[2] = "load_ingest_sheet"
       /\ shown = <<>>
       /\ answers = <<>>
       /\ posted = <<>>
       /\ files = <<>>
    \/ \A k \in 1..Len(csv) : HasDeploymentNumber(csv[k].filename_mask)

\* C2 witness: the run aborted in the load although the first line is a
\* valid, enabled, uncabled one; the bad mask is on the last line, a cabled
\* and commented-out one.
C2_Witness ==
    /\ pc = "error"
    /\ exc[2] = "load_ingest_sheet"
    /\ Len(csv) = 2
    /\ 1 \in EligibleLines
    /\ HasDeploymentNumber(csv[1].filename_mask)
    /\ ~HasDeploymentNumber(csv[2].filename_mask)
    /\ csv[2].filename_mask # <<>>
    /\ IsCabledText(csv[2].reference_designator)
    /\ ~EnabledParserText(csv[2].parser)

\* C3: past the filter stage the data frame holds exactly the lines whose
\* reference designator neither equals nor starts with a cabled platform
\* name and whose file mask is present, each once; and no request is ever
\* shown, confirmed, POSTed or recorded for a cabled reference designator.
C3_CabledExcluded ==
    /\ PastFilter =>
          /\ Labels(df) =
                {n - 1 : n \in {m \in 1..Len(csv) :
                                   /\ ~IsCabledText(csv[m].reference_designator)
                                   /\ csv[m].filename_mask # <<>>}}
          /\ Len(df) = Cardinality(Labels(df))
    /\ \A l \in ShownLabels \cup Labels(answers) \cup Labels(posted) :
          ~IsCabledText(LineOf(l).reference_designator)
    /\ \A k \in 1..Len(posted) : ~IsCabledText(FileMaskOf(posted[k][2]).refDes)
    /\ \A k \in 1..Len(ingest_df) : ~IsCabledText(ingest_df[k].ReferenceDesignator)

\* C3 witness: a sheet with a line of a cabled platform (by prefix, not by
\* equality) and an uncabled line, run to the end with the uncabled line
\* POSTed and the cabled one dropped.
C3_Witness ==
    /\ pc = "done"
    /\ Len(csv) = 2
    /\ IsCabledText(csv[1].reference_designator)
    /\ csv[1].reference_designator \notin CabledPrefixes
    /\ Len(df) = 1
    /\ Labels(posted) = {1}

\* C4: in a run past loading that has ended, where every answer confirmed
\* and every POST was answered with 200, the requests POSTed are exactly
\* the eligible lines of the sheet, each once, in ascending (deployment,
\* reference designator) order.
C4_PostsAreEligibleLinesInOrder ==
    (/\ Terminated
     /\ PastLoading
     /\ \A k \in 1..Len(answers) : ConfirmingAnswer(answers[k][2])
     /\ \A k \in 1..Len(statuses) : statuses[k] = 200)
    => /\ Labels(posted) = {n - 1 : n \in EligibleLines}
       /\ Len(posted) = Cardinality(EligibleLines)
       /\ \A a, b \in 1..Len(posted) :
             a < b => InSheetOrder(LineOf(posted[a][1]), LineOf(posted[b][1]))

\* C5: in a run past loading that has ended: if the filtered frame is empty
\* the run returned with no POST and no file written; otherwise the results
\* were written exactly once, after the last row, whatever happened to the
\* rows.  Stated for the outcomes the claim names (rows skipped, declined,
\* submitted and recorded, submitted and failed).
C5_ResultsWrittenOnce ==
    (Terminated /\ PastLoading /\ RowsMetNamedOutcomes) =>
        IF df = <<>>
        THEN pc = "returned" /\ posted = <<>> /\ files = <<>>
        ELSE Len(files) = 1 /\ i > Len(df)

\* C6: the accumulator holds one record per request that was confirmed and
\* answered with 200, in the order of submission, each with the reference
\* designator, deployment, type and file mask of the line it came from;
\* disabled, declined and failed rows contribute nothing.
C6_AccumulatorState ==
    /\ Len(ingest_df) = Cardinality({k \in 1..Len(statuses) : statuses[k] = 200})
    /\ \A k \in 1..Len(ingest_df) :
          LET line == LineOf(posted[k][1]) IN
          /\ statuses[k] = 200
          /\ Confirmed(posted[k][1])
          /\ EnabledParserText(line.parser)
          /\ ingest_df[k].ReferenceDesignator = line.reference_designator
          /\ ingest_df[k].deployment = DeploymentOfText(line.filename_mask)
          /\ ingest_df[k].type = TypeOfRun
          /\ ingest_df[k].fileMask = line.filename_mask

\* C6: the accumulator is as above at every point of the run, and a record
\* once appended is never changed or removed.
C6_AccumulatorHoldsSubmittedRows ==
    /\ []C6_AccumulatorState
    /\ [][/\ Len(ingest_df') >= Len(ingest_df)
          /\ SubSeq(ingest_df', 1, Len(ingest_df)) = ingest_df]_vars

\* C6 witness: two requests were confirmed, the first answered with 200 and
\* the second with 500: one record is held.
C6_Witness ==
    /\ Len(statuses) = 2
    /\ statuses[1] = 200
    /\ statuses[2] = 500
    /\ Len(ingest_df) = 1

\* C7: every request built in the loop, and every record kept of one,
\* carries refDesFinal "false" when the reference designator is one of the
\* eight wildcard designators and "true" otherwise, never the initial ''.
C7_RefDesFinal ==
    /\ \A rd \in WildcardTexts : refDesFinal_of(rd) = "false"
    /\ \A k \in 1..Len(posted) :
          LET fm == FileMaskOf(posted[k][2]) IN
          /\ fm.refDes = LineOf(posted[k][1]).reference_designator
          /\ fm.refDesFinal =
                 IF fm.refDes \in WildcardTexts THEN "false" ELSE "true"
    /\ pc \in {"input", "post"} =>
          FileMaskOf(ingest_dict).refDesFinal =
              IF LineOf(df[i][1]).reference_designator \in WildcardTexts
              THEN "false" ELSE "true"
    /\ \A k \in 1..Len(ingest_df) :
          ingest_df[k].refDesFinal =
              IF ingest_df[k].ReferenceDesignator \in WildcardTexts
              THEN "false" ELSE "true"

\* C7 witness: a request for a wildcard designator was POSTed with "false"
\* and then one for another designator with "true".
C7_Witness ==
    /\ Len(posted) = 2
    /\ LineOf(posted[1][1]).reference_designator \in WildcardTexts
    /\ FileMaskOf(posted[1][2]).refDesFinal = "false"
    /\ LineOf(posted[2][1]).reference_designator \notin WildcardTexts
    /\ FileMaskOf(posted[2][2]).refDesFinal = "true"

\* C8: at the prompt of a row, the request built for it is POSTed if and
\* only if the answer is empty or has a 'y' in it; otherwise nothing is
\* POSTed, no record is appended and the loop goes on to the next row.  No
\* request is POSTed but from a prompt.
C8_PostIffConfirmed ==
    [][/\ pc = "input" =>
             IF ConfirmingAnswer(answers'[Len(answers')][2])
             THEN /\ posted' = Append(posted, <<df[i][1], ingest_dict>>)
                  /\ pc' = "post"
             ELSE /\ posted' = posted
                  /\ ingest_df' = ingest_df
                  /\ pc' = "loop"
                  /\ i' = i + 1
       /\ posted' # posted => pc = "input"]_vars

\* C8 witness: the first prompt was answered "Y" and nothing was POSTed
\* for that row; the second was answered "yes" and its request was POSTed.
C8_Witness ==
    /\ Len(answers) = 2
    /\ answers[1][2] = <<"Y">>
    /\ answers[2][2] = <<"y", "e", "s">>
    /\ Len(posted) = 1
    /\ posted[1][1] = answers[2][1]

\* C9: a row of the filtered frame whose parser field is empty or has a
\* '#' anywhere is skipped: no request is built or shown for it, none is
\* POSTed, and the loop goes on past it without the run being aborted.
C9_DisabledRowsSkipped ==
    PastFilter =>
        \A k \in 1..Len(df) :
            ~EnabledParserText(LineOf(df[k][1]).parser) =>
                /\ df[k][1] \notin ShownLabels
                /\ df[k][1] \notin Labels(posted)
                /\ i > k => row_state[k] = "SKIPPED_DISABLED"
                /\ ~(pc = "error" /\ i = k)

\* C10: every row follows PENDING -> (SKIPPED_DISABLED | SKIPPED_BY_OPERATOR
\* | SUBMITTED -> {RECORDED | FAILED}): at most one POST per row, a POST
\* only after a confirming answer, and every row of a run that has ended is
\* in one of the terminal states.  The last part is stated for the runs in
\* which every row met took one of the transitions of the machine.
C10_RowStateMachine ==
    /\ \A k \in 1..Len(row_state) :
          /\ row_state[k] \in {"PENDING", "SUBMITTED"} \cup TerminalRowStates
          /\ row_state[k] \in {"SUBMITTED", "RECORDED", "FAILED"} =>
                /\ Confirmed(df[k][1])
                /\ Cardinality({p \in 1..Len(posted) : posted[p][1] = df[k][1]}) = 1
          /\ row_state[k] \notin {"SUBMITTED", "RECORDED", "FAILED"} =>
                df[k][1] \notin Labels(posted)
          /\ k < i => row_state[k] # "PENDING"
    /\ (Terminated /\ PastFilter /\ RowsMetNamedOutcomes) =>
          \A k \in 1..Len(row_state) : row_state[k] \in TerminalRowStates

====
